---- MODULE Spec2Model ----
(***************************************************************************)
(* Soil quality sensor firmware (main.cpp): bootstrap (setup), the         *)
(* telemetry task (MQTTTask), the power task (PEKTask), the PMU interrupt  *)
(* handler (handlePMUIRQ) and the console mutex (semaphoreSerial).         *)
(* Each action is one step of one execution context between two points     *)
(* where another context can interleave.                                   *)
(***************************************************************************)
EXTENDS Integers, FiniteSets, Sequences, TLC

VARIABLES
  power,            \* "on", "sleep" (esp_deep_sleep_start), "off" (axp.shutdown)
  sPC,              \* position of setup() / loop()
  mPC,              \* position of MQTTTask ("none" before xTaskCreatePinnedToCore)
  pPC,              \* position of PEKTask  ("none" before xTaskCreatePinnedToCore)
  semaphoreSerial,  \* "null" (not created), "free", "M" (held by MQTTTask), "P" (held by PEKTask)
  pekPressed,       \* volatile bool pekPressed
  attached,         \* attachInterrupt(PMU_IRQ_PIN, handlePMUIRQ, FALLING) done
  axpFound,         \* result of axp.begin in this boot: "unknown", "yes", "no"
  isrLatched,       \* a falling edge is latched and handlePMUIRQ has not run yet
  irqStatus,        \* IRQ status bits of the AXP192; PMU_IRQ_PIN is LOW iff non-empty
  irqCache,         \* status bits cached in the axp object by axp.readIRQ()
  wifi,             \* WiFi.status(): "Disconnected", "Associating", "Connected"
  session,          \* mqttClient.connected()
  ledState,         \* bool ledState
  bootCount,        \* RTC_DATA_ATTR uint32_t bootCount, as [hi, lo] 16-bit halves
  wakeTimer,        \* duration armed by esp_sleep_enable_timer_wakeup, 0 if not armed
  dataStr,          \* bootCnt field of the record built in this iteration, or NoRecord
  pubResult,        \* result of mqttClient.publish in this iteration: "none", "ok", "fail"
  pubCycle,         \* successful publish calls in this wake cycle
  nPub,             \* successful publish calls since the start of the observed powered lifetime
  base,             \* bootCount at the start of the observed powered lifetime
  longLogs,         \* "Long press detected" lines written by PEKTask in this wake cycle
  isrSinceClear,    \* handlePMUIRQ ran since PEKTask last executed pekPressed = false
  boots             \* wake-ups and cold boots since the initial state

vars == <<power, sPC, mPC, pPC, semaphoreSerial, pekPressed, attached, axpFound, isrLatched,
          irqStatus, irqCache, wifi, session, ledState, bootCount, wakeTimer,
          dataStr, pubResult, pubCycle, nPub, base, longLogs, isrSinceClear, boots>>

\* Variables grouped by owner, for UNCHANGED clauses.
pmuVars  == <<pekPressed, attached, axpFound, isrLatched, irqStatus, irqCache>>
netVars  == <<wifi, session>>
histVars == <<pubCycle, nPub, base, longLogs, isrSinceClear, boots>>
teleVars == <<bootCount, wakeTimer, dataStr, pubResult>>

----------------------------------------------------------------------------
\* Bounds and program constants

\* Wake-ups plus cold boots followed after the initial state.
MaxBoots == 1

\* uint32_t bootCount is kept as two 16-bit halves; Half = 2^16.
Half == 65536

\* static const uint64_t SLEEP_DURATION_US = 30ULL * 1000000
SLEEP_DURATION_US == 30000000

NoRecord == [hi |-> -1, lo |-> -1]

\* Interrupt causes of the AXP192: the long press enabled at line 243 and any
\* other cause left enabled by the chip.
Causes == {"long", "other"}

----------------------------------------------------------------------------
\* uint32_t arithmetic on [hi, lo]

U32(h, l) == [hi |-> h, lo |-> l]

U32One == U32(0, 1)

U32Max == U32(Half - 1, Half - 1)

\* bootCount++ on a uint32_t: wraps from 2^32 - 1 to 0
U32Inc(x) ==
  IF x.lo = Half - 1
    THEN U32((x.hi + 1) % Half, 0)
    ELSE U32(x.hi, x.lo + 1)

RECURSIVE U32Add(_, _)
U32Add(x, n) == IF n = 0 THEN x ELSE U32Add(U32Inc(x), n - 1)

U32Leq(a, b) == a.hi < b.hi \/ (a.hi = b.hi /\ a.lo <= b.lo)

\* Values of the retained counter at the wake-up where observation starts:
\* 1 right after a cold boot (line 79), 7 after six successful publish cycles,
\* and 2^32 - 1, the value it holds after 2^32 - 2 successful publish cycles
\* of one powered lifetime.
RetainedAtStart == {U32One, U32(0, 7), U32Max}

----------------------------------------------------------------------------
\* Power-management chip (axp) helpers

\* digitalRead(PMU_IRQ_PIN) == LOW
IrqLineLow == irqStatus # {}

\* axp.isPEKLongtPressIRQ() accepting any cause (faulty variant)
isPEKLongtPressIRQ_AnyCause == irqCache # {}

\* axp.isPEKLongtPressIRQ(): tests the status cached by the last readIRQ
isPEKLongtPressIRQ == "long" \in irqCache

----------------------------------------------------------------------------
\* State after reset (cold boot or wake from deep sleep); bootCount, irqStatus
\* and the history of the powered lifetime are set by the caller.
ResetState ==
  /\ power' = "on"
  /\ sPC' = "s_begin"
  /\ mPC' = "none"
  /\ pPC' = "none"
  /\ semaphoreSerial' = "null"
  /\ pekPressed' = FALSE
  /\ attached' = FALSE
  /\ axpFound' = "unknown"
  /\ isrLatched' = FALSE
  /\ irqCache' = {}
  /\ wifi' = "Disconnected"
  /\ session' = FALSE
  /\ ledState' = FALSE
  /\ wakeTimer' = 0
  /\ dataStr' = NoRecord
  /\ pubResult' = "none"
  /\ pubCycle' = 0
  /\ longLogs' = 0
  /\ isrSinceClear' = FALSE

Init ==
  /\ power = "on"
  /\ sPC = "s_begin"
  /\ mPC = "none"
  /\ pPC = "none"
  /\ semaphoreSerial = "null"
  /\ pekPressed = FALSE
  /\ attached = FALSE
  /\ axpFound = "unknown"
  /\ isrLatched = FALSE
  /\ irqStatus = {}
  /\ irqCache = {}
  /\ wifi = "Disconnected"
  /\ session = FALSE
  /\ ledState = FALSE
  /\ bootCount \in RetainedAtStart
  /\ wakeTimer = 0
  /\ dataStr = NoRecord
  /\ pubResult = "none"
  /\ pubCycle = 0
  /\ nPub = 0
  /\ base = bootCount
  /\ longLogs = 0
  /\ isrSinceClear = FALSE
  /\ boots = 0

----------------------------------------------------------------------------
\* Environment: the chip raises interrupts, the network comes and goes

\* The AXP192 sets a status bit; PMU_IRQ_PIN falls if no bit was set before,
\* and the FALLING edge is latched if the handler is attached and the CPU runs.
HwIrqEvent ==
  /\ power \in {"on", "sleep"}
  /\ \E c \in Causes \ irqStatus :
       /\ irqStatus' = irqStatus \cup {c}
       /\ isrLatched' = (isrLatched \/ (irqStatus = {} /\ attached /\ power = "on"))
  /\ UNCHANGED <<power, sPC, mPC, pPC, semaphoreSerial, pekPressed, attached, axpFound, irqCache,
                 netVars, ledState, teleVars, histVars>>

\* static void IRAM_ATTR handlePMUIRQ() { pekPressed = true; }
handlePMUIRQ ==
  /\ power = "on"
  /\ isrLatched
  /\ isrLatched' = FALSE
  /\ pekPressed' = TRUE
  /\ isrSinceClear' = TRUE
  /\ UNCHANGED <<power, sPC, mPC, pPC, semaphoreSerial, attached, axpFound, irqStatus, irqCache,
                 netVars, ledState, teleVars, pubCycle, nPub, base, longLogs, boots>>

\* An association started by WiFi.begin completes.
WifiUp ==
  /\ power = "on"
  /\ wifi = "Associating"
  /\ wifi' = "Connected"
  /\ UNCHANGED <<power, sPC, mPC, pPC, semaphoreSerial, pmuVars, session, ledState,
                 teleVars, histVars>>

\* Association is lost.
WifiDrop ==
  /\ power = "on"
  /\ wifi = "Connected"
  /\ wifi' = "Disconnected"
  /\ UNCHANGED <<power, sPC, mPC, pPC, semaphoreSerial, pmuVars, session, ledState,
                 teleVars, histVars>>

\* The telemetry session is found closed (broker or network gone).
SessionDrop ==
  /\ power = "on"
  /\ session
  /\ session' = FALSE
  /\ UNCHANGED <<power, sPC, mPC, pPC, semaphoreSerial, pmuVars, wifi, ledState,
                 teleVars, histVars>>

----------------------------------------------------------------------------
\* setup(), lines 217-320

\* Lines 219-232 without the while(1) of line 229 (faulty variant)
SetupBegin_NoHalt ==
  /\ power = "on"
  /\ sPC = "s_begin"
  /\ \E detected \in BOOLEAN :
       /\ axpFound' = IF detected THEN "yes" ELSE "no"
       /\ sPC' = "s_clear"
  /\ UNCHANGED <<power, mPC, pPC, semaphoreSerial, pekPressed, attached, isrLatched,
                 irqStatus, irqCache, netVars, ledState, teleVars, histVars>>

\* Lines 219-232: axp.begin; a missing chip halts in while(1).
SetupBegin ==
  /\ power = "on"
  /\ sPC = "s_begin"
  /\ \E detected \in BOOLEAN :
       /\ axpFound' = IF detected THEN "yes" ELSE "no"
       /\ sPC' = IF detected THEN "s_clear" ELSE "s_halt"
  /\ UNCHANGED <<power, mPC, pPC, semaphoreSerial, pekPressed, attached, isrLatched,
                 irqStatus, irqCache, netVars, ledState, teleVars, histVars>>

\* Lines 234-242: power rails, ADC, pinMode, axp.clearIRQ().
SetupClearIRQ ==
  /\ power = "on"
  /\ sPC = "s_clear"
  /\ irqStatus' = {}
  /\ sPC' = "s_attach"
  /\ UNCHANGED <<power, mPC, pPC, semaphoreSerial, pekPressed, attached, axpFound, isrLatched,
                 irqCache, netVars, ledState, teleVars, histVars>>

\* Lines 243-244 with PEKTask created here, before the association loop
\* (faulty variant)
SetupAttach_CreatesTaskEarly ==
  /\ power = "on"
  /\ sPC = "s_attach"
  /\ attached' = TRUE
  /\ pPC' = "p_check"
  /\ sPC' = "s_wifi_begin"
  /\ UNCHANGED <<power, mPC, semaphoreSerial, pekPressed, axpFound, isrLatched, irqStatus,
                 irqCache, netVars, ledState, teleVars, histVars>>

\* Lines 243-244: axp.enableIRQ, attachInterrupt(..., handlePMUIRQ, FALLING).
SetupAttach ==
  /\ power = "on"
  /\ sPC = "s_attach"
  /\ attached' = TRUE
  /\ sPC' = "s_wifi_begin"
  /\ UNCHANGED <<power, mPC, pPC, semaphoreSerial, pekPressed, axpFound, isrLatched, irqStatus,
                 irqCache, netVars, ledState, teleVars, histVars>>

\* Lines 247-259: LED, ext0 wake source, WiFi.mode/disconnect/begin.
SetupWifiBegin ==
  /\ power = "on"
  /\ sPC = "s_wifi_begin"
  /\ wifi' = "Associating"
  /\ sPC' = "s_wifi_chk"
  /\ UNCHANGED <<power, mPC, pPC, semaphoreSerial, pmuVars, session, ledState,
                 teleVars, histVars>>

\* Line 261: while(WiFi.status() != WL_CONNECTED).
SetupWifiCheck ==
  /\ power = "on"
  /\ sPC = "s_wifi_chk"
  /\ sPC' = IF wifi # "Connected" THEN "s_retry" ELSE "s_post"
  /\ UNCHANGED <<power, mPC, pPC, semaphoreSerial, pmuVars, netVars, ledState,
                 teleVars, histVars>>

\* Lines 262-265: delay(500), Debug("."), ledState = !ledState.
SetupRetry ==
  /\ power = "on"
  /\ sPC = "s_retry"
  /\ ledState' = ~ledState
  /\ sPC' = "s_poll"
  /\ UNCHANGED <<power, mPC, pPC, semaphoreSerial, pmuVars, netVars, teleVars, histVars>>

\* Line 267: if(digitalRead(PMU_IRQ_PIN) == LOW).
SetupPoll ==
  /\ power = "on"
  /\ sPC = "s_poll"
  /\ sPC' = IF IrqLineLow THEN "s_read" ELSE "s_wifi_chk"
  /\ UNCHANGED <<power, mPC, pPC, semaphoreSerial, pmuVars, netVars, ledState,
                 teleVars, histVars>>

\* Line 268 with the inlined poll also resetting pekPressed (faulty variant)
SetupReadIRQ_ResetsFlag ==
  /\ power = "on"
  /\ sPC = "s_read"
  /\ irqCache' = irqStatus
  /\ pekPressed' = FALSE
  /\ sPC' = "s_classify"
  /\ UNCHANGED <<power, mPC, pPC, semaphoreSerial, attached, axpFound, isrLatched,
                 irqStatus, netVars, ledState, teleVars, histVars>>

\* Line 268: axp.readIRQ().
SetupReadIRQ ==
  /\ power = "on"
  /\ sPC = "s_read"
  /\ irqCache' = irqStatus
  /\ sPC' = "s_classify"
  /\ UNCHANGED <<power, mPC, pPC, semaphoreSerial, pekPressed, attached, axpFound, isrLatched,
                 irqStatus, netVars, ledState, teleVars, histVars>>

\* Lines 270-272 with the long press only cleared, like any other cause
\* (faulty variant)
SetupClassify_NoShutdown ==
  /\ power = "on"
  /\ sPC = "s_classify"
  /\ sPC' = "s_clearirq"
  /\ UNCHANGED <<power, mPC, pPC, semaphoreSerial, pmuVars, netVars, ledState,
                 teleVars, histVars>>

\* Lines 270-272: if(axp.isPEKLongtPressIRQ()) { Debugln(...); delay(100);
SetupClassify ==
  /\ power = "on"
  /\ sPC = "s_classify"
  /\ sPC' = IF isPEKLongtPressIRQ THEN "s_shutdown" ELSE "s_clearirq"
  /\ UNCHANGED <<power, mPC, pPC, semaphoreSerial, pmuVars, netVars, ledState,
                 teleVars, histVars>>

\* Line 273: axp.shutdown(); the chip cuts the power and the call does not
\* return.
SetupShutdown ==
  /\ sPC = "s_shutdown"
  /\ power = "on"
  /\ power' = "off"
  /\ UNCHANGED <<sPC, mPC, pPC, semaphoreSerial, pmuVars, netVars, ledState,
                 teleVars, histVars>>

\* Line 276: axp.clearIRQ().
SetupPollClearIRQ ==
  /\ power = "on"
  /\ sPC = "s_clearirq"
  /\ irqStatus' = {}
  /\ sPC' = "s_wifi_chk"
  /\ UNCHANGED <<power, mPC, pPC, semaphoreSerial, pekPressed, attached, axpFound, isrLatched,
                 irqCache, netVars, ledState, teleVars, histVars>>

\* Lines 280-297: log the address, setupOTA, setCACert, setServer,
\* semaphoreSerial = xSemaphoreCreateMutex().
SetupCreateMutex ==
  /\ power = "on"
  /\ sPC = "s_post"
  /\ semaphoreSerial' = "free"
  /\ sPC' = "s_task1"
  /\ UNCHANGED <<power, mPC, pPC, pmuVars, netVars, ledState, teleVars, histVars>>

\* Lines 300-308: xTaskCreatePinnedToCore(MQTTTask, ...).
SetupCreateMQTTTask ==
  /\ power = "on"
  /\ sPC = "s_task1"
  /\ mPC' = "m_ota"
  /\ sPC' = "s_task2"
  /\ UNCHANGED <<power, pPC, semaphoreSerial, pmuVars, netVars, ledState, teleVars,
                 histVars>>

\* Lines 310-320: xTaskCreatePinnedToCore(PEKTask, ...); setup returns and
\* loop() only delays (lines 326-328).
SetupCreatePEKTask ==
  /\ power = "on"
  /\ sPC = "s_task2"
  /\ pPC' = "p_check"
  /\ sPC' = "loop"
  /\ UNCHANGED <<power, mPC, semaphoreSerial, pmuVars, netVars, ledState, teleVars,
                 histVars>>

Setup ==
  \/ SetupBegin \/ SetupClearIRQ \/ SetupAttach \/ SetupWifiBegin \/ SetupWifiCheck
  \/ SetupRetry \/ SetupPoll \/ SetupReadIRQ \/ SetupClassify \/ SetupShutdown
  \/ SetupPollClearIRQ \/ SetupCreateMutex \/ SetupCreateMQTTTask \/ SetupCreatePEKTask

----------------------------------------------------------------------------
\* semaphoreSerial

\* xSemaphoreTake(semaphoreSerial, portMAX_DELAY): blocks until the mutex is free
SemTake(holder) ==
  /\ semaphoreSerial = "free"
  /\ semaphoreSerial' = holder

\* xSemaphoreGive(semaphoreSerial)
SemGive(holder) ==
  /\ semaphoreSerial = holder
  /\ semaphoreSerial' = "free"

----------------------------------------------------------------------------
\* PEKTask, lines 191-211

\* Line 193: if(pekPressed).
PEKCheck ==
  /\ power = "on"
  /\ pPC = "p_check"
  /\ pPC' = IF pekPressed THEN "p_clearflag" ELSE "p_delay"
  /\ UNCHANGED <<power, sPC, mPC, semaphoreSerial, pmuVars, netVars, ledState,
                 teleVars, histVars>>

\* Line 194 left out: the flag stays set (faulty variant)
PEKClearFlag_Skip ==
  /\ power = "on"
  /\ pPC = "p_clearflag"
  /\ isrSinceClear' = FALSE
  /\ pPC' = "p_read"
  /\ UNCHANGED <<power, sPC, mPC, semaphoreSerial, pmuVars, netVars,
                 ledState, teleVars, pubCycle, nPub, base, longLogs, boots>>

\* Line 194: pekPressed = false.
PEKClearFlag ==
  /\ power = "on"
  /\ pPC = "p_clearflag"
  /\ pekPressed' = FALSE
  /\ isrSinceClear' = FALSE
  /\ pPC' = "p_read"
  /\ UNCHANGED <<power, sPC, mPC, semaphoreSerial, attached, axpFound, isrLatched, irqStatus,
                 irqCache, netVars, ledState, teleVars, pubCycle, nPub, base, longLogs,
                 boots>>

\* Line 195: axp.readIRQ().
PEKReadIRQ ==
  /\ power = "on"
  /\ pPC = "p_read"
  /\ irqCache' = irqStatus
  /\ pPC' = "p_classify"
  /\ UNCHANGED <<power, sPC, mPC, semaphoreSerial, pekPressed, attached, axpFound, isrLatched,
                 irqStatus, netVars, ledState, teleVars, histVars>>

\* Line 197 with the pass ending without line 206 when the cause is not a
\* long press (faulty variant)
PEKClassify_SkipsRearm ==
  /\ power = "on"
  /\ pPC = "p_classify"
  /\ pPC' = IF isPEKLongtPressIRQ THEN "p_take" ELSE "p_passdone"
  /\ UNCHANGED <<power, sPC, mPC, semaphoreSerial, pmuVars, netVars, ledState,
                 teleVars, histVars>>

\* Line 197: if(axp.isPEKLongtPressIRQ()).
PEKClassify ==
  /\ power = "on"
  /\ pPC = "p_classify"
  /\ pPC' = IF isPEKLongtPressIRQ THEN "p_take" ELSE "p_clearirq"
  /\ UNCHANGED <<power, sPC, mPC, semaphoreSerial, pmuVars, netVars, ledState,
                 teleVars, histVars>>

\* Line 198: xSemaphoreTake; the write of line 199 starts.
PEKLogTake ==
  /\ power = "on"
  /\ pPC = "p_take"
  /\ SemTake("P")
  /\ pPC' = "p_write"
  /\ UNCHANGED <<power, sPC, mPC, pmuVars, netVars, ledState, teleVars, histVars>>

\* Lines 199-200 without xSemaphoreGive (faulty variant)
PEKLogGive_NoGive ==
  /\ power = "on"
  /\ pPC = "p_write"
  /\ longLogs' = longLogs + 1
  /\ pPC' = "p_flush"
  /\ UNCHANGED <<power, sPC, mPC, semaphoreSerial, pmuVars, netVars, ledState, teleVars,
                 pubCycle, nPub, base, isrSinceClear, boots>>

\* Lines 199-200: the line is written; xSemaphoreGive.
PEKLogGive ==
  /\ power = "on"
  /\ pPC = "p_write"
  /\ SemGive("P")
  /\ longLogs' = longLogs + 1
  /\ pPC' = "p_flush"
  /\ UNCHANGED <<power, sPC, mPC, pmuVars, netVars, ledState, teleVars, pubCycle, nPub,
                 base, isrSinceClear, boots>>

\* Line 202: vTaskDelay(pdMS_TO_TICKS(100)).
PEKFlushDelay ==
  /\ power = "on"
  /\ pPC = "p_flush"
  /\ pPC' = "p_shutdown"
  /\ UNCHANGED <<power, sPC, mPC, semaphoreSerial, pmuVars, netVars, ledState,
                 teleVars, histVars>>

\* Line 203: axp.shutdown(); the chip cuts the power and the call does not
\* return (line 206 is not reached on this path).
PEKShutdown ==
  /\ power = "on"
  /\ pPC = "p_shutdown"
  /\ power' = "off"
  /\ UNCHANGED <<sPC, mPC, pPC, semaphoreSerial, pmuVars, netVars, ledState,
                 teleVars, histVars>>

\* Line 206: axp.clearIRQ(); the pass ends at line 207.
PEKClearIRQ ==
  /\ power = "on"
  /\ pPC = "p_clearirq"
  /\ irqStatus' = {}
  /\ pPC' = "p_passdone"
  /\ UNCHANGED <<power, sPC, mPC, semaphoreSerial, pekPressed, attached, axpFound, isrLatched,
                 irqCache, netVars, ledState, teleVars, histVars>>

\* Line 207: end of the if(pekPressed) block.
PEKPassDone ==
  /\ power = "on"
  /\ pPC = "p_passdone"
  /\ pPC' = "p_delay"
  /\ UNCHANGED <<power, sPC, mPC, semaphoreSerial, pmuVars, netVars, ledState,
                 teleVars, histVars>>

\* Line 209: vTaskDelay(pdMS_TO_TICKS(100)), back to line 192.
PEKDelay ==
  /\ power = "on"
  /\ pPC = "p_delay"
  /\ pPC' = "p_check"
  /\ UNCHANGED <<power, sPC, mPC, semaphoreSerial, pmuVars, netVars, ledState,
                 teleVars, histVars>>

PEKTask ==
  \/ PEKCheck \/ PEKClearFlag \/ PEKReadIRQ \/ PEKClassify \/ PEKLogTake
  \/ PEKLogGive \/ PEKFlushDelay \/ PEKShutdown \/ PEKClearIRQ \/ PEKPassDone
  \/ PEKDelay

----------------------------------------------------------------------------
\* MQTTTask, lines 113-188, and reconnectToMQTT, lines 335-358

\* MQTTTask moves from one position to the next.
MqttAt(from, to) ==
  /\ power = "on"
  /\ mPC = from
  /\ mPC' = to

\* A Debug write under the mutex starts: xSemaphoreTake succeeded.
MqttLogTake(from, to) ==
  /\ MqttAt(from, to)
  /\ SemTake("M")

\* The write is complete: xSemaphoreGive.
MqttLogGive(from, to) ==
  /\ MqttAt(from, to)
  /\ SemGive("M")

\* Line 115: ArduinoOTA.handle(); with an update request on the network it runs
\* the callbacks of lines 367-390, which write with Debugln/Debugf.
MqttOtaHandle ==
  /\ \E update \in BOOLEAN :
       /\ update => wifi = "Connected"
       /\ MqttAt("m_ota", IF update THEN "m_ota_write" ELSE "m_connchk")
  /\ UNCHANGED <<power, sPC, pPC, semaphoreSerial, pmuVars, netVars, ledState,
                 teleVars, histVars>>

\* Lines 367-390: the callback's write is complete, handle() returns.
MqttOtaCallbackDone ==
  /\ MqttAt("m_ota_write", "m_connchk")
  /\ UNCHANGED <<power, sPC, pPC, semaphoreSerial, pmuVars, netVars, ledState,
                 teleVars, histVars>>

\* Lines 117-118 and 336: if(!mqttClient.connected()) reconnectToMQTT().
MqttConnCheck ==
  /\ MqttAt("m_connchk", IF ~session THEN "r_take_try" ELSE "m_loop")
  /\ UNCHANGED <<power, sPC, pPC, semaphoreSerial, pmuVars, netVars, ledState,
                 teleVars, histVars>>

\* Line 337: "Attempting MQTT connection...".
ReconnLogTryTake ==
  /\ MqttLogTake("r_take_try", "r_write_try")
  /\ UNCHANGED <<power, sPC, pPC, pmuVars, netVars, ledState, teleVars, histVars>>

\* Lines 338-339.
ReconnLogTryGive ==
  /\ MqttLogGive("r_write_try", "r_connect")
  /\ UNCHANGED <<power, sPC, pPC, pmuVars, netVars, ledState, teleVars, histVars>>

\* Line 342: mqttClient.connect(...); it can succeed only over an associated
\* network.
ReconnConnect ==
  /\ \E ok \in BOOLEAN :
       /\ ok => wifi = "Connected"
       /\ session' = ok
       /\ MqttAt("r_connect", IF ok THEN "r_take_ok" ELSE "r_take_fail")
  /\ UNCHANGED <<power, sPC, pPC, semaphoreSerial, pmuVars, wifi, ledState,
                 teleVars, histVars>>

\* Line 343: "connected".
ReconnLogOkTake ==
  /\ MqttLogTake("r_take_ok", "r_write_ok")
  /\ UNCHANGED <<power, sPC, pPC, pmuVars, netVars, ledState, teleVars, histVars>>

\* Lines 344-345, then the loop test of line 336.
ReconnLogOkGive ==
  /\ MqttLogGive("r_write_ok", "r_chk")
  /\ UNCHANGED <<power, sPC, pPC, pmuVars, netVars, ledState, teleVars, histVars>>

\* Line 348: "failed, rc=...".
ReconnLogFailTake ==
  /\ MqttLogTake("r_take_fail", "r_write_fail")
  /\ UNCHANGED <<power, sPC, pPC, pmuVars, netVars, ledState, teleVars, histVars>>

\* Lines 349-352 without xSemaphoreGive: the mutex is kept through the delay
\* of line 355 (faulty variant)
ReconnLogFailGive_NoGive ==
  /\ MqttAt("r_write_fail", "r_delay")
  /\ UNCHANGED <<power, sPC, pPC, semaphoreSerial, pmuVars, netVars, ledState,
                 teleVars, histVars>>

\* Lines 349-352.
ReconnLogFailGive ==
  /\ MqttLogGive("r_write_fail", "r_delay")
  /\ UNCHANGED <<power, sPC, pPC, pmuVars, netVars, ledState, teleVars, histVars>>

\* Line 355: vTaskDelay(pdMS_TO_TICKS(5000)).
ReconnDelay ==
  /\ MqttAt("r_delay", "r_chk")
  /\ UNCHANGED <<power, sPC, pPC, semaphoreSerial, pmuVars, netVars, ledState,
                 teleVars, histVars>>

\* Line 336 giving up after one attempt (faulty variant)
ReconnLoopCheck_GivesUp ==
  /\ MqttAt("r_chk", "m_loop")
  /\ UNCHANGED <<power, sPC, pPC, semaphoreSerial, pmuVars, netVars, ledState,
                 teleVars, histVars>>

\* Line 336: while(!mqttClient.connected()).
ReconnLoopCheck ==
  /\ MqttAt("r_chk", IF ~session THEN "r_take_try" ELSE "m_loop")
  /\ UNCHANGED <<power, sPC, pPC, semaphoreSerial, pmuVars, netVars, ledState,
                 teleVars, histVars>>

reconnectToMQTT ==
  \/ ReconnLogTryTake \/ ReconnLogTryGive \/ ReconnConnect \/ ReconnLogOkTake
  \/ ReconnLogOkGive \/ ReconnLogFailTake \/ ReconnLogFailGive \/ ReconnDelay
  \/ ReconnLoopCheck

\* Lines 120-122 without the test of WiFi.status() (faulty variant)
MqttLoopWifiCheck_NoCheck ==
  /\ MqttAt("m_loop", "m_build")
  /\ UNCHANGED <<power, sPC, pPC, semaphoreSerial, pmuVars, netVars, ledState,
                 teleVars, histVars>>

\* Lines 120-122: mqttClient.loop(); if(WiFi.status() != WL_CONNECTED).
MqttLoopWifiCheck ==
  /\ MqttAt("m_loop", IF wifi # "Connected" THEN "w_take_start" ELSE "m_build")
  /\ UNCHANGED <<power, sPC, pPC, semaphoreSerial, pmuVars, netVars, ledState,
                 teleVars, histVars>>

\* Line 124: "Connecting to WIFI SSID".
WifiLogStartTake ==
  /\ MqttLogTake("w_take_start", "w_write_start")
  /\ UNCHANGED <<power, sPC, pPC, pmuVars, netVars, ledState, teleVars, histVars>>

\* Lines 125-127.
WifiLogStartGive ==
  /\ MqttLogGive("w_write_start", "w_reset")
  /\ UNCHANGED <<power, sPC, pPC, pmuVars, netVars, ledState, teleVars, histVars>>

\* Lines 130-132: WiFi.mode, WiFi.disconnect, vTaskDelay(100).
WifiReset ==
  /\ MqttAt("w_reset", "w_begin")
  /\ wifi' = "Disconnected"
  /\ UNCHANGED <<power, sPC, pPC, semaphoreSerial, pmuVars, session, ledState,
                 teleVars, histVars>>

\* Line 133: WiFi.begin(ssid, password).
WifiBegin ==
  /\ MqttAt("w_begin", "w_chk")
  /\ wifi' = "Associating"
  /\ UNCHANGED <<power, sPC, pPC, semaphoreSerial, pmuVars, session, ledState,
                 teleVars, histVars>>

\* Lines 135-136: while(WiFi.status() != WL_CONNECTED) vTaskDelay(500).
WifiLoopCheck ==
  /\ MqttAt("w_chk", IF wifi # "Connected" THEN "w_take_dot" ELSE "w_take_done")
  /\ UNCHANGED <<power, sPC, pPC, semaphoreSerial, pmuVars, netVars, ledState,
                 teleVars, histVars>>

\* Line 137: ".".
WifiLogDotTake ==
  /\ MqttLogTake("w_take_dot", "w_write_dot")
  /\ UNCHANGED <<power, sPC, pPC, pmuVars, netVars, ledState, teleVars, histVars>>

\* Lines 138-142: the dot is written, the mutex given, ledState toggled.
WifiLogDotGive ==
  /\ MqttLogGive("w_write_dot", "w_chk")
  /\ ledState' = ~ledState
  /\ UNCHANGED <<power, sPC, pPC, pmuVars, netVars, teleVars, histVars>>

\* Line 145: "WiFi connected, IP address: ".
WifiLogDoneTake ==
  /\ MqttLogTake("w_take_done", "w_write_done")
  /\ UNCHANGED <<power, sPC, pPC, pmuVars, netVars, ledState, teleVars, histVars>>

\* Lines 146-155: the address is written, the mutex given, the LED pin set low.
WifiLogDoneGive ==
  /\ MqttLogGive("w_write_done", "m_delay")
  /\ UNCHANGED <<power, sPC, pPC, pmuVars, netVars, ledState, teleVars, histVars>>

WifiReassociate ==
  \/ WifiLogStartTake \/ WifiLogStartGive \/ WifiReset \/ WifiBegin \/ WifiLoopCheck
  \/ WifiLogDotTake \/ WifiLogDotGive \/ WifiLogDoneTake \/ WifiLogDoneGive

\* Lines 159-165: sample, sprintf the record with bootCnt = bootCount.
MqttBuildRecord ==
  /\ MqttAt("m_build", "m_publish")
  /\ dataStr' = bootCount
  /\ UNCHANGED <<power, sPC, pPC, semaphoreSerial, pmuVars, netVars, ledState,
                 bootCount, wakeTimer, pubResult, histVars>>

\* Line 167 with the result of publish ignored (faulty variant)
MqttPublish_IgnoresResult ==
  /\ \E ok \in BOOLEAN :
       /\ ok => session
       /\ MqttAt("m_publish", "ok_take")
       /\ pubResult' = IF ok THEN "ok" ELSE "fail"
       /\ pubCycle' = IF ok THEN pubCycle + 1 ELSE pubCycle
       /\ nPub' = IF ok THEN nPub + 1 ELSE nPub
  /\ UNCHANGED <<power, sPC, pPC, semaphoreSerial, pmuVars, netVars, ledState,
                 bootCount, wakeTimer, dataStr, base, longLogs, isrSinceClear, boots>>

\* Line 167: mqttClient.publish(mqttTopicPub, dataStr); false without a session.
MqttPublish ==
  /\ \E ok \in BOOLEAN :
       /\ ok => session
       /\ MqttAt("m_publish", IF ok THEN "ok_take" ELSE "fail_take")
       /\ pubResult' = IF ok THEN "ok" ELSE "fail"
       /\ pubCycle' = IF ok THEN pubCycle + 1 ELSE pubCycle
       /\ nPub' = IF ok THEN nPub + 1 ELSE nPub
  /\ UNCHANGED <<power, sPC, pPC, semaphoreSerial, pmuVars, netVars, ledState,
                 bootCount, wakeTimer, dataStr, base, longLogs, isrSinceClear, boots>>

\* Line 168: the record and "Going to sleep until next TX...".
PubLogOkTake ==
  /\ MqttLogTake("ok_take", "ok_write")
  /\ UNCHANGED <<power, sPC, pPC, pmuVars, netVars, ledState, teleVars, histVars>>

\* Lines 170-171 with the task going back to the delay of line 186 instead of
\* on to lines 173-176 (faulty variant)
PubLogOkGive_BackToLoop ==
  /\ MqttLogGive("ok_write", "m_delay")
  /\ UNCHANGED <<power, sPC, pPC, pmuVars, netVars, ledState, teleVars, histVars>>

\* Lines 169-171.
PubLogOkGive ==
  /\ MqttLogGive("ok_write", "m_inc")
  /\ UNCHANGED <<power, sPC, pPC, pmuVars, netVars, ledState, teleVars, histVars>>

\* Line 173 left out (faulty variant)
MqttIncrement_Skipped ==
  /\ MqttAt("m_inc", "m_arm")
  /\ UNCHANGED <<power, sPC, pPC, semaphoreSerial, pmuVars, netVars, ledState,
                 teleVars, histVars>>

\* Line 173: bootCount++.
MqttIncrement ==
  /\ MqttAt("m_inc", "m_arm")
  /\ bootCount' = U32Inc(bootCount)
  /\ UNCHANGED <<power, sPC, pPC, semaphoreSerial, pmuVars, netVars, ledState,
                 wakeTimer, dataStr, pubResult, histVars>>

\* Line 175 left out (faulty variant)
MqttArmTimer_NotArmed ==
  /\ MqttAt("m_arm", "m_sleep")
  /\ UNCHANGED <<power, sPC, pPC, semaphoreSerial, pmuVars, netVars, ledState,
                 teleVars, histVars>>

\* Line 175: esp_sleep_enable_timer_wakeup(SLEEP_DURATION_US).
MqttArmTimer ==
  /\ MqttAt("m_arm", "m_sleep")
  /\ wakeTimer' = SLEEP_DURATION_US
  /\ UNCHANGED <<power, sPC, pPC, semaphoreSerial, pmuVars, netVars, ledState,
                 bootCount, dataStr, pubResult, histVars>>

\* Line 176 returning to the loop instead of sleeping (faulty variant)
MqttDeepSleep_Returns ==
  /\ MqttAt("m_sleep", "m_delay")
  /\ UNCHANGED <<power, sPC, pPC, semaphoreSerial, pmuVars, netVars, ledState,
                 teleVars, histVars>>

\* Line 176: esp_deep_sleep_start(); both tasks stop where they are.
MqttDeepSleep ==
  /\ power = "on"
  /\ mPC = "m_sleep"
  /\ power' = "sleep"
  /\ UNCHANGED <<sPC, mPC, pPC, semaphoreSerial, pmuVars, netVars, ledState,
                 teleVars, histVars>>

\* Line 178: "Failed to publish data".
PubLogFailTake ==
  /\ MqttLogTake("fail_take", "fail_write")
  /\ UNCHANGED <<power, sPC, pPC, pmuVars, netVars, ledState, teleVars, histVars>>

\* Lines 179-184: the line is written, the mutex given; dataStr goes out of scope.
PubLogFailGive ==
  /\ MqttLogGive("fail_write", "m_delay")
  /\ dataStr' = NoRecord
  /\ UNCHANGED <<power, sPC, pPC, pmuVars, netVars, ledState, bootCount, wakeTimer,
                 pubResult, histVars>>

\* Line 186: vTaskDelay(pdMS_TO_TICKS(100)), back to line 114.
MqttDelay ==
  /\ MqttAt("m_delay", "m_ota")
  /\ pubResult' = "none"
  /\ UNCHANGED <<power, sPC, pPC, semaphoreSerial, pmuVars, netVars, ledState,
                 bootCount, wakeTimer, dataStr, histVars>>

MQTTTask ==
  \/ MqttOtaHandle \/ MqttOtaCallbackDone \/ MqttConnCheck \/ reconnectToMQTT
  \/ MqttLoopWifiCheck \/ WifiReassociate \/ MqttBuildRecord \/ MqttPublish
  \/ PubLogOkTake \/ PubLogOkGive \/ MqttIncrement \/ MqttArmTimer \/ MqttDeepSleep
  \/ PubLogFailTake \/ PubLogFailGive \/ MqttDelay

----------------------------------------------------------------------------
\* Reset

\* Wake with bootCount in ordinary memory, initialised again (faulty variant)
Wake_LosesCounter ==
  /\ power = "sleep"
  /\ boots < MaxBoots
  /\ ResetState
  /\ boots' = boots + 1
  /\ bootCount' = U32One
  /\ UNCHANGED <<irqStatus, nPub, base>>

\* Wake from deep sleep (timer or button): every variable is initialised again
\* except the RTC_DATA_ATTR counter; the AXP192 keeps its status bits.
Wake ==
  /\ power = "sleep"
  /\ boots < MaxBoots
  /\ ResetState
  /\ boots' = boots + 1
  /\ UNCHANGED <<bootCount, irqStatus, nPub, base>>

\* Power-up after axp.shutdown(): bootCount is initialised to 1 (line 79).
ColdBoot ==
  /\ power = "off"
  /\ boots < MaxBoots
  /\ ResetState
  /\ bootCount' = U32One
  /\ irqStatus' = {}
  /\ nPub' = 0
  /\ base' = U32One
  /\ boots' = boots + 1

Interrupts == HwIrqEvent \/ handlePMUIRQ

Network == WifiUp \/ WifiDrop \/ SessionDrop

Next == Setup \/ MQTTTask \/ PEKTask \/ Interrupts \/ Network \/ Wake \/ ColdBoot

Spec == Init /\ [][Next]_vars

\* Fair scheduling: both tasks, bootstrap and the interrupt handler keep
\* running while they can, and a started association completes.
FairSpec ==
  /\ Spec
  /\ WF_vars(Setup)
  /\ WF_vars(MQTTTask)
  /\ WF_vars(PEKTask)
  /\ WF_vars(handlePMUIRQ)
  /\ WF_vars(WifiUp)

\* Both tasks are scheduled, and xSemaphoreTake(semaphoreSerial, portMAX_DELAY)
\* is served: a task blocked on the mutex is woken when it is given, so a task
\* whose next step is possible again and again takes it.
LockFairSpec ==
  /\ Spec
  /\ SF_vars(MQTTTask)
  /\ SF_vars(PEKTask)

----------------------------------------------------------------------------
\* Positions where a task is in the middle of a diagnostic write

\* MQTTTask is writing: under the mutex, or in a firmware-update callback
MqttWriting ==
  mPC \in {"r_write_try", "r_write_ok", "r_write_fail", "w_write_start", "w_write_dot",
           "w_write_done", "ok_write", "fail_write", "m_ota_write"}

\* PEKTask is writing (line 199)
PekWriting == pPC = "p_write"

\* MQTTTask is at an xSemaphoreTake
MqttWaiting ==
  mPC \in {"r_take_try", "r_take_ok", "r_take_fail", "w_take_start", "w_take_dot",
           "w_take_done", "ok_take", "fail_take"}

\* PEKTask is at the xSemaphoreTake of line 198
PekWaiting == pPC = "p_take"

\* PEKTask has classified a long press and has not yet called axp.shutdown
PekShuttingDown == pPC \in {"p_take", "p_write", "p_flush", "p_shutdown"}

\* setup is inside the inlined press poll of the association loop
SetupInPoll == sPC \in {"s_poll", "s_read", "s_classify", "s_shutdown", "s_clearirq"}

\* PEKTask is inside a pass, between line 194 and line 206
PekInPass ==
  pPC \in {"p_clearflag", "p_read", "p_classify", "p_take", "p_write",
           "p_flush", "p_shutdown", "p_clearirq"}

\* MQTTTask is between a successful publish and esp_deep_sleep_start
MqttGoingToSleep == mPC \in {"ok_take", "ok_write", "m_inc", "m_arm", "m_sleep"}

\* MQTTTask is inside reconnectToMQTT (lines 336-357)
MqttReconnecting ==
  mPC \in {"r_take_try", "r_write_try", "r_connect", "r_take_ok", "r_write_ok",
           "r_take_fail", "r_write_fail", "r_delay", "r_chk"}

\* MQTTTask is in the re-association sub-loop of lines 122-156
MqttReassociating ==
  mPC \in {"w_take_start", "w_write_start", "w_reset", "w_begin", "w_chk",
           "w_take_dot", "w_write_dot", "w_take_done", "w_write_done"}

\* x + n over the integers, with no wrap: hi = Half stands for 2^32 and above
PlusExact(x, n) ==
  [hi |-> x.hi + ((x.lo + n) \div Half), lo |-> (x.lo + n) % Half]

----------------------------------------------------------------------------
\* Claims

\* C1: a long-press classification by the Power Task always ends in one
\* axp.shutdown call, with at most one log line before it, in every
\* interleaving with the Telemetry Task: the wake cycle never ends in deep
\* sleep with a classified long press still waiting for its shutdown.
C1_LongPressAlwaysShutsDown ==
  /\ power = "sleep" => ~PekShuttingDown
  /\ longLogs <= 1

\* C2 (as claimed): pekPressed is false where the Power Task completes a
\* classification pass (line 207), in every interleaving with the handler.
C2_FlagFalseAfterPass ==
  pPC = "p_passdone" => ~pekPressed

\* C2 (amended): pekPressed is false where the Power Task completes a
\* classification pass unless handlePMUIRQ ran after the pass cleared the flag.
C2_FlagFalseAfterPassUnlessIsr ==
  (pPC = "p_passdone" /\ ~isrSinceClear) => ~pekPressed

C2_Witness ==
  /\ power = "on"
  /\ pPC = "p_passdone"
  /\ irqCache = {"other"}
  /\ ~isrSinceClear
  /\ ~pekPressed

\* C3: the Telemetry Task and the Power Task are never both in the middle of
\* a diagnostic write, the firmware-update callbacks included.
C3_NoOverlappingWrites ==
  ~(power = "on" /\ MqttWriting /\ PekWriting)

\* C4 (as claimed): when a wake cycle ends in deep sleep after N successful
\* publish calls since the start of the powered lifetime, bootCount is its
\* value at that start plus N.
C4_CounterIsBasePlusN ==
  power = "sleep" => bootCount = PlusExact(base, nPub)

\* C4 (amended): when a wake cycle ends in deep sleep after N successful
\* publish calls since the start of the powered lifetime, bootCount is its
\* value at that start plus N modulo 2^32.
C4_CounterIsBasePlusNMod32 ==
  power = "sleep" => bootCount = U32Add(base, nPub)

C4_Witness ==
  /\ power = "sleep"
  /\ nPub = 2
  /\ pubCycle = 1
  /\ bootCount = U32Add(base, 2)

\* C5 (as claimed): bootCount never goes down except by a cold boot, which
\* sets it to 1.
C5_MonotonicExceptColdBoot ==
  [][IF power = "off" /\ power' = "on"
       THEN bootCount' = U32One
       ELSE U32Leq(bootCount, bootCount')]_vars

\* C5 (amended): bootCount never goes down except by a cold boot, which sets
\* it to 1, and by the increment at 2^32 - 1, which wraps it to 0.
C5_MonotonicExceptColdBootAndWrap ==
  [][IF power = "off" /\ power' = "on"
       THEN bootCount' = U32One
       ELSE \/ U32Leq(bootCount, bootCount')
            \/ (bootCount = U32Max /\ bootCount' = U32(0, 0))]_vars

C5_Witness ==
  /\ power = "on"
  /\ boots = 1
  /\ base = U32One
  /\ nPub = 2
  /\ bootCount = U32(0, 3)

\* C6: after publish returned failure, and until the next iteration starts,
\* the Telemetry Task leaves bootCount alone, arms no wake timer and does not
\* enter deep sleep; it only logs, passes the delay of line 186 and starts the
\* next iteration, with the record discarded.
C6_PublishFailureOnlyLogs ==
  [][(power = "on" /\ pubResult = "fail") =>
       /\ bootCount' = bootCount
       /\ wakeTimer' = 0
       /\ power' # "sleep"
       /\ mPC \in {"fail_take", "fail_write", "m_delay"}
       /\ mPC' \in {"fail_take", "fail_write", "m_delay", "m_ota"}
       /\ (mPC' \in {"m_delay", "m_ota"} => dataStr' = NoRecord)
       /\ (pubResult' # "fail" => mPC' = "m_ota")]_vars

C6_Witness ==
  /\ power = "on"
  /\ pubResult = "fail"
  /\ mPC = "m_delay"
  /\ dataStr = NoRecord

\* C7: axp.shutdown is called, by the Power Task or by the bootstrap poll,
\* only when the cause just read is a long press.
C7_ShutdownOnlyOnLongPress ==
  /\ power = "off" => "long" \in irqCache
  /\ (sPC = "s_shutdown" \/ PekShuttingDown) => "long" \in irqCache
  /\ ("long" \notin irqCache /\ pPC \in {"p_clearirq", "p_passdone"}) => power # "off"

C7_Witness ==
  /\ power = "on"
  /\ pPC = "p_passdone"
  /\ irqCache = {"other"}

\* C8: at most one publish call returns success in a wake cycle, and after it
\* the Telemetry Task is on its way to deep sleep, away from the publish call.
C8_OnePublishPerWakeCycle ==
  /\ pubCycle <= 1
  /\ pubCycle = 1 => (pubResult = "ok" /\ MqttGoingToSleep)

C8_Witness ==
  /\ power = "sleep"
  /\ pubCycle = 1
  /\ boots = 1

\* C9 (as claimed): when deep sleep or power-off is executed, no task holds
\* semaphoreSerial.
C9_NoLockHeldAtNonReturning ==
  power \in {"sleep", "off"} => semaphoreSerial \in {"null", "free"}

\* C9 (amended): when deep sleep or power-off is executed, the task that
\* executes it does not hold semaphoreSerial.
C9_CallerHoldsNoLockAtNonReturning ==
  /\ power = "sleep" => semaphoreSerial # "M"
  /\ (power = "off" /\ pPC = "p_shutdown") => semaphoreSerial # "P"
  /\ (power = "off" /\ sPC = "s_shutdown") => semaphoreSerial = "null"

C9_Witness ==
  /\ power = "off"
  /\ pPC = "p_shutdown"
  /\ semaphoreSerial = "M"

\* C10: if association is lost while the Telemetry Task runs, the task
\* eventually reaches its re-association sub-loop and the network is
\* eventually associated again (unless the wake cycle ends first), also when
\* the telemetry session is lost with the network.
C10_NetworkLossLeadsToReassociation ==
  /\ (power = "on" /\ mPC # "none" /\ wifi = "Disconnected")
       ~> (MqttReassociating \/ power # "on")
  /\ (power = "on" /\ mPC # "none" /\ wifi = "Disconnected")
       ~> (wifi = "Connected" \/ power # "on")

C12_PublishSuccessSequence ==
  /\ mPC = "m_publish" => dataStr = bootCount
  /\ (pubResult = "ok" /\ mPC \in {"ok_take", "ok_write", "m_inc"}) =>
       (bootCount = dataStr /\ wakeTimer = 0 /\ power # "sleep")
  /\ mPC = "m_arm" =>
       (bootCount = PlusExact(dataStr, 1) /\ wakeTimer = 0 /\ power # "sleep")
  /\ mPC = "m_sleep" =>
       (bootCount = PlusExact(dataStr, 1) /\ wakeTimer = SLEEP_DURATION_US)
  /\ power = "sleep" => mPC = "m_sleep"

\* C12 (amended): the same with bootCount becoming k + 1 modulo 2^32.
C12_PublishSuccessSequenceMod32 ==
  /\ mPC = "m_publish" => dataStr = bootCount
  /\ (pubResult = "ok" /\ mPC \in {"ok_take", "ok_write", "m_inc"}) =>
       (bootCount = dataStr /\ wakeTimer = 0 /\ power # "sleep")
  /\ mPC = "m_arm" =>
       (bootCount = U32Add(dataStr, 1) /\ wakeTimer = 0 /\ power # "sleep")
  /\ mPC = "m_sleep" =>
       (bootCount = U32Add(dataStr, 1) /\ wakeTimer = SLEEP_DURATION_US)
  /\ power = "sleep" => mPC = "m_sleep"

C12_Witness ==
  /\ power = "sleep"
  /\ dataStr = U32(0, 7)
  /\ bootCount = U32(0, 8)
  /\ wakeTimer = SLEEP_DURATION_US

\* C13: when axp.begin does not find the chip, setup halts at line 229 and
\* stays there: the mutex is never created, no task is created, no
\* association is started and nothing is published.
C13_MissingChipHalts ==
  /\ [](axpFound = "no" =>
          /\ power = "on"
          /\ sPC = "s_halt"
          /\ semaphoreSerial = "null"
          /\ mPC = "none"
          /\ pPC = "none"
          /\ ~attached
          /\ wifi = "Disconnected"
          /\ ~session
          /\ pubCycle = 0)
  /\ [][axpFound = "no" => axpFound' = "no"]_vars

C13_Witness ==
  /\ axpFound = "no"
  /\ sPC = "s_halt"
  /\ irqStatus = Causes

\* C14: in every pass of the Power Task the flag is cleared (line 194) before
\* the interrupt source is re-armed (line 206): the step that leaves line 193
\* for the rest of the pass stores false, nothing re-arms the source between
\* the observation and that store, and at the re-arming the flag is false
\* unless handlePMUIRQ has set it again since.
C14_FlagClearedBeforeRearm ==
  [][/\ (pPC' = "p_read" /\ pPC # "p_read") => (pPC = "p_clearflag" /\ ~pekPressed')
     /\ (pPC = "p_clearflag" /\ power = "on") => irqStatus \subseteq irqStatus'
     /\ (pPC = "p_clearirq" /\ pPC' = "p_passdone") =>
          ((~pekPressed \/ isrSinceClear) /\ irqStatus' = {})]_vars

C14_Witness ==
  /\ power = "on"
  /\ pPC = "p_clearirq"
  /\ irqStatus # {}
  /\ ~pekPressed
  /\ ~isrSinceClear

\* C15 (as claimed): the Telemetry Task is at the sampling or at the publish
\* call only while the network is associated and the session is connected.
C15_PublishOnlyWhenConnected ==
  (power = "on" /\ mPC \in {"m_build", "m_publish"}) =>
    (wifi = "Connected" /\ session)

\* C15 (amended): the Telemetry Task reaches the sampling only from line 122
\* with the network found associated, and line 120 only with the session
\* found connected; the publish call follows the sampling, and it returns
\* success only while the session is connected.
C15_PublishOnlyAfterChecks ==
  [][/\ (mPC' = "m_loop" /\ mPC # "m_loop") => session
     /\ (mPC' = "m_build" /\ mPC # "m_build") => (mPC = "m_loop" /\ wifi = "Connected")
     /\ (mPC' = "m_publish" /\ mPC # "m_publish") => mPC = "m_build"
     /\ (pubResult' = "ok" /\ pubResult # "ok") => (mPC = "m_publish" /\ session)]_vars

C15_Witness ==
  /\ power = "on"
  /\ mPC = "fail_take"
  /\ pubResult = "fail"
  /\ wifi = "Connected"
  /\ ~session

\* C16: an interrupt occurrence recorded in pekPressed is observed by the
\* Power Task: while the device is not powered off, pekPressed goes from true
\* to false only at line 194 of a Power Task pass, deep sleep included.
C16_InterruptObservedByPowerTask ==
  [][(pekPressed /\ ~pekPressed' /\ power # "off") =>
       (power = "on" /\ pPC = "p_clearflag" /\ pPC' = "p_read")]_vars

\* C17 (as claimed): every pass of the Power Task that leaves idle ends by
\* re-arming the interrupt source with axp.clearIRQ, long press or not.
C17_EveryPassRearms ==
  [][(PekInPass /\ ~PekInPass') =>
       (pPC = "p_clearirq" /\ irqStatus' = {})]_vars

\* C17 (amended): a pass that is not classified as a long press goes on to
\* axp.clearIRQ, and a pass ends while the device runs only through
\* axp.clearIRQ; a pass classified as a long press stays on the way to
\* axp.shutdown and never reaches axp.clearIRQ.
C17_PassRearmsUnlessShutdown ==
  [][power = "on" =>
       /\ (PekInPass /\ ~PekInPass') =>
            (pPC = "p_clearirq" /\ pPC' = "p_passdone" /\ irqStatus' = {})
       /\ (pPC' = "p_passdone" /\ pPC # "p_passdone") => pPC = "p_clearirq"
       /\ (pPC = "p_classify" /\ pPC' # "p_classify") =>
            pPC' = IF isPEKLongtPressIRQ THEN "p_take" ELSE "p_clearirq"
       /\ PekShuttingDown => PekShuttingDown']_vars

C17_Witness ==
  /\ power = "on"
  /\ pPC = "p_passdone"
  /\ irqCache = {"other"}
  /\ irqStatus = {}

\* C18: one interrupt occurrence is classified at most once: a pass of the
\* Power Task classifies a status that is still pending, never one that the
\* inlined bootstrap poll or an earlier pass has already read and cleared.
C18_PassClassifiesPendingOccurrence ==
  (power = "on" /\ pPC = "p_classify") => irqCache # {}

\* C19: in deep sleep no task runs and only the wake changes the program's
\* state; the wake restarts bootstrap from its top with bootCount as it was
\* at the moment of sleep and with pekPressed, ledState, the lock, the
\* handler attachment and the connection state back at their initial values;
\* pekPressed is false at the start of every wake cycle.
C19_WakeRestartsWithCounterOnly ==
  /\ []((power = "on" /\ sPC = "s_begin") =>
          (~pekPressed /\ mPC = "none" /\ pPC = "none"))
  /\ [][power = "sleep" =>
          \/ /\ power' = "sleep"
             /\ UNCHANGED <<sPC, mPC, pPC, semaphoreSerial, pekPressed, attached,
                            ledState, bootCount, wifi, session>>
          \/ /\ power' = "on"
             /\ bootCount' = bootCount
             /\ sPC' = "s_begin"
             /\ mPC' = "none"
             /\ pPC' = "none"
             /\ ~pekPressed'
             /\ ~ledState'
             /\ ~attached'
             /\ semaphoreSerial' = "null"
             /\ wifi' = "Disconnected"
             /\ ~session']_vars

C19_Witness ==
  /\ power = "on"
  /\ sPC = "s_begin"
  /\ boots = 1
  /\ nPub = 1
  /\ base = U32(0, 7)
  /\ bootCount = U32(0, 8)
  /\ ~pekPressed

\* C20: bootstrap and the Power Task never access the chip's IRQ state at the
\* same time: the Power Task exists only once bootstrap has reached loop(),
\* and while the device runs every readIRQ or clearIRQ is made either by
\* bootstrap before the Power Task is created or by the Power Task.
C20_IrqAccessNeverConcurrent ==
  /\ [](pPC # "none" => sPC = "loop")
  /\ [][(power = "on" /\ power' = "on" /\
         (irqCache' # irqCache \/ (irqStatus # {} /\ irqStatus' = {}))) =>
          \/ /\ sPC \in {"s_clear", "s_read", "s_clearirq"}
             /\ sPC' # sPC
             /\ pPC = "none"
          \/ /\ pPC \in {"p_read", "p_clearirq"}
             /\ pPC' # pPC
             /\ sPC = "loop"
             /\ sPC' = "loop"]_vars

C20_Witness ==
  /\ power = "on"
  /\ sPC = "loop"
  /\ pPC = "p_read"
  /\ irqCache = {"other"}
  /\ irqStatus = {"long"}
  /\ pubCycle = 0

\* C21: while the program runs, pekPressed becomes true only in a step of
\* handlePMUIRQ and false only at line 194 of the Power Task; no step of
\* bootstrap, of loop() or of the Telemetry Task changes it, and a step of
\* handlePMUIRQ changes no other variable of the program.
C21_FlagWriters ==
  [][power = "on" =>
       /\ (~pekPressed /\ pekPressed') => (isrLatched /\ ~isrLatched')
       /\ (pekPressed /\ ~pekPressed') =>
            (pPC = "p_clearflag" /\ pPC' = "p_read" /\ UNCHANGED <<sPC, mPC>>)
       /\ (sPC' # sPC \/ mPC' # mPC) => pekPressed' = pekPressed
       /\ (isrLatched /\ ~isrLatched') =>
            /\ pekPressed'
            /\ UNCHANGED <<power, sPC, mPC, pPC, semaphoreSerial, attached,
                           axpFound, irqStatus, irqCache, netVars, ledState,
                           teleVars>>]_vars

C21_Witness ==
  /\ power = "on"
  /\ sPC = "s_wifi_chk"
  /\ pekPressed
  /\ ~isrLatched
  /\ irqStatus = {}
  /\ irqCache = {"other"}

\* C22: in the association loop of bootstrap no task and no lock exists; a
\* retry that finds the interrupt line low reads the status and classifies
\* it inline: a long press leads to axp.shutdown, any other cause only to
\* axp.clearIRQ and back to the loop test, and a retry with the line high
\* goes straight back to the loop test.
C22_BootstrapPollClassifiesInline ==
  /\ [](SetupInPoll =>
          (mPC = "none" /\ pPC = "none" /\ semaphoreSerial = "null"))
  /\ [][power = "on" =>
          /\ (sPC = "s_poll" /\ sPC' # sPC) =>
               sPC' = IF irqStatus # {} THEN "s_read" ELSE "s_wifi_chk"
          /\ (sPC = "s_read" /\ sPC' # sPC) =>
               (sPC' = "s_classify" /\ irqCache' = irqStatus)
          /\ (sPC = "s_classify" /\ sPC' # sPC) =>
               sPC' = IF "long" \in irqCache THEN "s_shutdown" ELSE "s_clearirq"
          /\ (sPC = "s_shutdown" /\ power' # power) =>
               (power' = "off" /\ "long" \in irqCache)
          /\ (sPC = "s_shutdown") => sPC' = sPC
          /\ (sPC = "s_clearirq" /\ sPC' # sPC) =>
               /\ sPC' = "s_wifi_chk"
               /\ irqStatus' = {}
               /\ "long" \notin irqCache
               /\ UNCHANGED <<power, mPC, pPC, semaphoreSerial, pekPressed,
                              attached, netVars, ledState, teleVars>>]_vars

C22_Witness ==
  /\ power = "off"
  /\ sPC = "s_shutdown"
  /\ "long" \in irqCache
  /\ semaphoreSerial = "null"
  /\ mPC = "none"
  /\ pPC = "none"

\* C23: the task that holds the console lock is inside a diagnostic write
\* and its next step is the release, with no delay, acquisition, connect
\* attempt or non-returning call in between; and a task waiting at an
\* acquisition gets the lock, unless the wake cycle ends first.
C23_LockAcquisitionSucceeds ==
  /\ [](/\ semaphoreSerial = "M" => (MqttWriting /\ mPC # "m_ota_write")
        /\ semaphoreSerial = "P" => PekWriting)
  /\ [][power = "on" =>
          /\ (semaphoreSerial = "M" /\ mPC' # mPC) =>
               (semaphoreSerial' = "free" /\ power' = "on" /\ ~MqttWaiting')
          /\ (semaphoreSerial = "P" /\ pPC' # pPC) =>
               (semaphoreSerial' = "free" /\ power' = "on")]_vars
  /\ (power = "on" /\ MqttWaiting) ~> (semaphoreSerial = "M" \/ power # "on")
  /\ (power = "on" /\ PekWaiting) ~> (semaphoreSerial = "P" \/ power # "on")

C23_Witness ==
  /\ power = "on"
  /\ semaphoreSerial = "M"
  /\ mPC = "r_write_fail"
  /\ PekWaiting

\* C24: once a publish call has returned success the Telemetry Task stays
\* on the way to esp_deep_sleep_start and never goes back to the top of its
\* loop; the device leaves the wake cycle, either by the deep sleep of the
\* Telemetry Task with bootCount incremented past the value published, or
\* by the power-off of the Power Task before that.
C24_SuccessLeadsToExit ==
  /\ [](pubResult = "ok" => MqttGoingToSleep)
  /\ [][(power = "on" /\ pubResult = "ok") =>
          /\ pubResult' = "ok"
          /\ power' = "sleep" =>
               (mPC = "m_sleep" /\ bootCount = U32Inc(dataStr))
          /\ power' = "off" => pPC = "p_shutdown"]_vars
  /\ (power = "on" /\ pubResult = "ok") ~> (power # "on")

C24_Witness ==
  /\ power = "off"
  /\ pubResult = "ok"
  /\ mPC = "ok_take"
  /\ pPC = "p_shutdown"

====
